---------------------------- MODULE Spec2Model ----------------------------
(***************************************************************************)
(* Technical indicator engine of python_scripts/TechnicalIndicators.py:    *)
(* the bar normalizer (_prepare_dataframe), the per-series analysis        *)
(* (calculate_comprehensive_analysis) and the command-line orchestrator    *)
(* (main).                                                                 *)
(*                                                                         *)
(* Numbers.  Prices are integers in hundredths (10.20 is 1020), raw        *)
(* volumes are integers in the unit of the input field 'v'.  A timestamp   *)
(* is an integer number of hours (day * 24 + hour).  A float that pandas   *)
(* would hold as NaN is the record NaN; a defined number x is Num(x).      *)
(***************************************************************************)
EXTENDS Integers, Sequences, FiniteSets, TLC

VARIABLES
    pc,          \* position of the running program
    argv,        \* the command line handed to main
    parsed,      \* json.loads(kline_json) in main
    ki,          \* position of main's loop over ["day", "60m", "5m"]
    timeframes,  \* output["timeframes"] of main
    stdout,      \* the documents main has printed to stdout
    kline_json,  \* the text main read from the file or decoded from base64
    kline_data,  \* the argument of TechnicalIndicatorCalculator(...)
    df,          \* self.df of the calculator
    raised,      \* the exception that left the calculator ("none": no exception)
    result,      \* what calculate_comprehensive_analysis returned
    calls,       \* the analysis calls made so far: series, recent_points, result
    volume_anomalies,  \* what find_volume_anomalies returned to the analysis
    macd,        \* what calculate_macd returned to the analysis
    order        \* the order in which main visits the timeframe names

vars == <<pc, argv, kline_json, parsed, ki, timeframes, stdout, kline_data, df, raised, result,
          calls, volume_anomalies, macd, order>>

-----------------------------------------------------------------------------
(* Bounds of the model *)

\* longest free-form raw record list drawn as an input
MaxLen == 3
\* how far below and above the 500-record cap the long inputs reach
CapSlack == 1
\* length of the generated series that main's inputs hold
MainBars == 50
\* longest generated series handed to the calculator on its own
MaxBars == 22
\* most analysis calls made in one run of the repeated-call specification
MaxCalls == 2

-----------------------------------------------------------------------------
(* Raw JSON field values *)

\* the key is not in the record
Absent == [k |-> "absent", n |-> 0]
\* JSON null
Null == [k |-> "null", n |-> 0]
\* a string that is no number and no date, such as "abc"
Text == [k |-> "text", n |-> 0]
\* a JSON number
NumV(x) == [k |-> "num", n |-> x]
\* a string holding a number ("10.20") or, for field d, a date
StrV(x) == [k |-> "str", n |-> x]

\* a date string: the timestamp ts written in format fmt
\* (fmt 0: "2024-01-02 10:00", fmt 1: "2024/01/02 10:00")
DateV(ts, fmt) == StrV(ts * 2 + fmt)

\* a raw bar record (a JSON object)
Item(d, o, c, h, l, v, tu) ==
    [obj |-> TRUE, d |-> d, o |-> o, c |-> c, h |-> h, l |-> l, v |-> v, tu |-> tu]

\* a list element that is no JSON object (a bare number)
NonObject ==
    [obj |-> FALSE, d |-> Absent, o |-> Absent, c |-> Absent, h |-> Absent,
     l |-> Absent, v |-> Absent, tu |-> Absent]

Max2(a, b) == IF a >= b THEN a ELSE b
Min2(a, b) == IF a <= b THEN a ELSE b

NaN == [nan |-> TRUE, x |-> 0]
Num(x) == [nan |-> FALSE, x |-> x]

-----------------------------------------------------------------------------
(* _prepare_dataframe *)

\* the cap on the number of raw records
KlineCap == 500

\* float(x) succeeds (no ValueError, no TypeError)
FloatOk(f) == f.k \in {"num", "str"}
\* float(x)
Float(f) == f.n

\* kline_data[-500:] when there are more than 500 records
Truncate(kline) ==
    IF Len(kline) > KlineCap
    THEN SubSeq(kline, Len(kline) - KlineCap + 1, Len(kline))
    ELSE kline

\* every required field is in the record ('field not in item' raises TypeError
\* for a list element that is no object, which the outer handler absorbs)
HasRequired(item) ==
    /\ item.obj
    /\ \A f \in {item.d, item.o, item.c, item.h, item.l, item.v} : f.k # "absent"

\* the conversions of o, c, h, l, v succeed
ConvertsOHLCV(item) ==
    \A f \in {item.o, item.c, item.h, item.l, item.v} : FloatOk(f)

\* any(price <= 0 ...)
PriceAbnormal(item) ==
    \E f \in {item.o, item.c, item.h, item.l} : Float(f) <= 0

\* high < max(open, close) or low > min(open, close)
PriceLogicError(item) ==
    \/ Float(item.h) < Max2(Float(item.o), Float(item.c))
    \/ Float(item.l) > Min2(Float(item.o), Float(item.c))

\* float(item.get('tu', 0)) succeeds
ConvertsTurnover(item) == item.tu.k = "absent" \/ FloatOk(item.tu)

\* the loop body reaches data.append for this record
Keep(item) ==
    /\ HasRequired(item)
    /\ ConvertsOHLCV(item)
    /\ ~PriceAbnormal(item)
    /\ ~PriceLogicError(item)
    /\ ConvertsTurnover(item)

\* the dict appended for a kept record (date still as given)
Row(item) ==
    [date     |-> item.d,
     open     |-> Float(item.o),
     close    |-> Float(item.c),
     high     |-> Float(item.h),
     low      |-> Float(item.l),
     volume   |-> Float(item.v) * 10000,
     turnover |-> (IF item.tu.k = "absent" THEN 0 ELSE Float(item.tu)) * 100000000]

\* the list 'data' after the loop
Filtered(kline) ==
    LET kept == SelectSeq(kline, Keep)
    IN  [i \in 1..Len(kept) |-> Row(kept[i])]

\* pd.to_datetime accepts the string
DateParses(f) == f.k = "str"
\* pd.to_datetime of one date string: both spellings of a date give one timestamp
ToDatetime(f) == f.n \div 2

\* df['date'] = pd.to_datetime(df['date'])
ToDatetimeCol(data) ==
    [i \in 1..Len(data) |-> [data[i] EXCEPT !.date = ToDatetime(data[i].date)]]

\* rows whose date another row has too
DupIdx(data) ==
    {i \in 1..Len(data) : \E j \in 1..Len(data) : j # i /\ data[j].date = data[i].date}

\* the rows in the order that puts row i before row j when its date is smaller,
\* or the dates are equal and p ranks i before j
SortBy(data, p) ==
    LET n == Len(data)
        prio(i) == IF i \in DOMAIN p THEN p[i] ELSE 0
        Less(j, i) == \/ data[j].date < data[i].date
                      \/ data[j].date = data[i].date /\ prio(j) < prio(i)
        rk == [i \in 1..n |-> Cardinality({j \in 1..n : Less(j, i)}) + 1] \o <<>>
    IN  [k \in 1..n |-> data[CHOOSE i \in 1..n : rk[i] = k]]

\* mutant of SortValues: the rows are left in the order of the input
SortValuesSkipped(data) == {data}

\* df.sort_values('date'): the default kind is quicksort, which is not stable,
\* so rows of equal date may come out in any order
SortValues(data) ==
    {SortBy(data, p) : p \in Permutations(DupIdx(data))}

\* df.drop_duplicates(subset=['date'], keep='last')
DropDuplicates(s) ==
    LET n == Len(s)
        K == {i \in 1..n : \A j \in (i + 1)..n : s[j].date # s[i].date}
        cnt == [i \in 1..n |-> Cardinality({j \in K : j <= i})] \o <<>>
    IN  [k \in 1..Cardinality(K) |-> s[CHOOSE i \in K : cnt[i] = k]]

Raise(e) == [exc |-> e, df |-> <<>>]
Return(d) == [exc |-> "none", df |-> d]

\* the outcomes of _prepare_dataframe(kline_data): an exception or a frame
PrepareDataframe(kline) ==
    IF Len(kline) = 0 THEN {Raise("ValueError: empty kline data")}
    ELSE LET data == Filtered(Truncate(kline))
         IN  IF Len(data) = 0 THEN {Raise("ValueError: no valid kline data")}
             ELSE IF \E i \in 1..Len(data) : ~DateParses(data[i].date)
                  THEN {Raise("ValueError: unparsable date")}
                  ELSE {Return(DropDuplicates(s)) : s \in SortValues(ToDatetimeCol(data))}

-----------------------------------------------------------------------------
(* Series helpers (pandas rolling windows are trailing and inclusive, and    *)
(* have no value until the window holds `window` values)                     *)

\* f[a] + ... + f[b]
RECURSIVE SumF(_, _, _)
SumF(f, a, b) == IF a > b THEN 0 ELSE f[b] + SumF(f, a, b - 1)

\* round(a / b, ndigits) for a value held in units of 10^-ndigits: the nearest
\* integer to a / b, a tie going to the even one
RoundDiv(a, b) ==
    LET q == (2 * a + b) \div (2 * b)
    IN  IF (2 * a + b) % (2 * b) = 0 /\ q % 2 = 1 THEN q - 1 ELSE q

\* mutant of MinPeriods: rolling(window=n, min_periods=1)
MinPeriodsOne(n) == 1

\* the least number of values a rolling window needs: rolling(window=n) leaves
\* min_periods at n
MinPeriods(n) == n

\* series.rolling(window=n) has a value at position i (1-based)
RollingDefined(n, i) == i >= MinPeriods(n)

Closes(s) == [i \in 1..Len(s) |-> s[i].close]
Volumes(s) == [i \in 1..Len(s) |-> s[i].volume]

\* calculate_ma(period) at position i: the sum of the window (the mean is sum / period)
MaSum(s, period, i) == SumF(Closes(s), Max2(1, i - period + 1), i)

\* calculate_ma(period) at position i, rounded to 2 decimals, or NaN
CalculateMa(s, period, i) ==
    IF RollingDefined(period, i)
    THEN Num(RoundDiv(MaSum(s, period, i), Min2(period, i)))
    ELSE NaN

\* delta.where(delta > 0, 0) at position i: the first delta is NaN and becomes 0
Gain(s, i) == IF i >= 2 /\ s[i].close > s[i - 1].close THEN s[i].close - s[i - 1].close ELSE 0
\* -delta.where(delta < 0, 0) at position i
Loss(s, i) == IF i >= 2 /\ s[i].close < s[i - 1].close THEN s[i - 1].close - s[i].close ELSE 0

GainSum(s, period, i) == SumF([j \in 1..Len(s) |-> Gain(s, j)], Max2(1, i - period + 1), i)
LossSum(s, period, i) == SumF([j \in 1..Len(s) |-> Loss(s, j)], Max2(1, i - period + 1), i)

\* calculate_rsi(14) has a value at position i: the windows are full and rs is
\* not 0 / 0 (gain / 0 is inf, which gives rsi = 100)
RsiDefined(s, i) ==
    /\ RollingDefined(14, i)
    /\ ~(GainSum(s, 14, i) = 0 /\ LossSum(s, 14, i) = 0)

\* rsi > 70 at position i (false for NaN)
RsiAbove70(s, i) == RsiDefined(s, i) /\ 3 * GainSum(s, 14, i) > 7 * LossSum(s, 14, i)
\* rsi < 30 at position i (false for NaN)
RsiBelow30(s, i) == RsiDefined(s, i) /\ 7 * GainSum(s, 14, i) < 3 * LossSum(s, 14, i)

\* mutant of CalculateRsi: a zero average loss gives no value instead of 100
CalculateRsiNoInf(s, i) ==
    LET g == SumF([j \in 1..Len(s) |-> Gain(s, j)], Max2(1, i - 13), i)
        l == SumF([j \in 1..Len(s) |-> Loss(s, j)], Max2(1, i - 13), i)
    IN  IF i >= 14 /\ l # 0 THEN Num(RoundDiv(10000 * g, g + l)) ELSE NaN

\* calculate_rsi(14) at position i, rounded to 2 decimals, or NaN
CalculateRsi(s, i) ==
    IF RsiDefined(s, i)
    THEN Num(RoundDiv(10000 * GainSum(s, 14, i), GainSum(s, 14, i) + LossSum(s, 14, i)))
    ELSE NaN

\* df['volume'].rolling(window=20).mean() at position i: the sum of the window
VolumeSum(s, i) == SumF(Volumes(s), Max2(1, i - 19), i)

\* mutant of VolumeRatioAbove2: the average is taken over the bars there are
\* (min_periods=1)
VolumeRatioAbove2Partial(s, i) ==
    Min2(i, 20) * s[i].volume
       > 2 * SumF([j \in 1..Len(s) |-> s[j].volume], Max2(1, i - 19), i)

\* volume_ratio > threshold (2.0) at position i, where volume_ratio is
\* volume / volume_ma: false where volume_ma is NaN, inf where it is 0
VolumeRatioAbove2(s, i) ==
    /\ RollingDefined(20, i)
    /\ LET sum == VolumeSum(s, i)
       IN  IF sum > 0 THEN 10 * s[i].volume > sum
           ELSE IF sum < 0 THEN 10 * s[i].volume < sum
           ELSE s[i].volume > 0

\* abs(price_change) > 3 at position i, where price_change is the change of
\* the close in percent of the previous close: false on the first bar (NaN)
PriceChangeAbove3(s, i) ==
    /\ i >= 2
    /\ LET d == s[i].close - s[i - 1].close
       IN  100 * (IF d < 0 THEN -d ELSE d) > 3 * s[i - 1].close

\* the entry appended for a flagged bar
Anomaly(s, i) == [date |-> [day |-> s[i].date \div 24, hm |-> -1], volume |-> s[i].volume]

\* find_volume_anomalies(threshold=2.0): one entry for each flagged bar, in
\* the order of the bars
FindVolumeAnomalies(s) ==
    LET n == Len(s)
        K == {i \in 1..n : VolumeRatioAbove2(s, i) /\ PriceChangeAbove3(s, i)}
        cnt == [i \in 1..n |-> Cardinality({j \in K : j <= i})] \o <<>>
    IN  [k \in 1..Cardinality(K) |-> Anomaly(s, CHOOSE i \in K : cnt[i] = k)]

-----------------------------------------------------------------------------
(* calculate_macd.  The exponentially weighted means are carried as exact     *)
(* fractions, in hundredths, for the first two bars of a series; the numbers  *)
(* of later positions are not carried.                                        *)

RECURSIVE Gcd(_, _)
Gcd(a, b) == IF b = 0 THEN a ELSE Gcd(b, a % b)

\* the fraction n / d (d > 0) in lowest terms
Rat(n, d) ==
    LET g == Gcd(IF n < 0 THEN -n ELSE n, d)
    IN  [num |-> n \div g, den |-> d \div g]

RatSub(a, b) == Rat(a.num * b.den - b.num * a.den, a.den * b.den)
RatLess(a, b) == a.num * b.den < b.num * a.den

\* x.ewm(span=span).mean() at position i (adjust=True, min_periods=0): the
\* first value is x[1]; the second weighs x[2] by 1 and x[1] by
\* 1 - alpha = (span - 1) / (span + 1)
EwmMean(x, span, i) ==
    IF i = 1 THEN x[1]
    ELSE Rat((span + 1) * x[2].num * x[1].den + (span - 1) * x[1].num * x[2].den,
             2 * span * x[1].den * x[2].den)

\* the positions whose MACD numbers are carried
MacdCarried(s) == 1..Min2(Len(s), 2)

\* mutant of Histogram: the operands are swapped
HistogramSwapped(m, sg) == RatSub(sg, m)

\* histogram = macd - signal_line, at one position
Histogram(m, sg) == RatSub(m, sg)

\* calculate_macd(fast=12, slow=26, signal=9): macd, signal_line, histogram
CalculateMacd(s) ==
    LET P == MacdCarried(s)
        close == [i \in P |-> Rat(s[i].close, 1)]
        exp1 == [i \in P |-> EwmMean(close, 12, i)]
        exp2 == [i \in P |-> EwmMean(close, 26, i)]
        m == [i \in P |-> RatSub(exp1[i], exp2[i])]
        sg == [i \in P |-> EwmMean(m, 9, i)]
    IN  [macd |-> m,
         signal_line |-> sg,
         histogram |-> [i \in P |-> Histogram(m[i], sg[i])]]

\* no call of calculate_macd yet
NoMacd == [macd |-> <<>>, signal_line |-> <<>>, histogram |-> <<>>]

-----------------------------------------------------------------------------
(* Where each indicator has a value (is not NaN) *)

HighMax(s, a, b) == CHOOSE m \in {s[j].high : j \in a..b} : \A j \in a..b : s[j].high <= m
LowMin(s, a, b) == CHOOSE m \in {s[j].low : j \in a..b} : \A j \in a..b : s[j].low >= m

\* calculate_bollinger_bands: the rolling mean and the rolling std of 20 closes
BollingerDefined(s, i) == RollingDefined(20, i)

\* calculate_macd: ewm(span=...) has min_periods 0, so every position has a value
MacdDefined(s, i) == TRUE

\* rsv of calculate_kdj at position j: the 9-bar windows are full and the
\* division is not 0 / 0
RsvDefined(s, j) ==
    /\ RollingDefined(9, j)
    /\ HighMax(s, Max2(1, j - 8), j) # LowMin(s, Max2(1, j - 8), j)

\* k, d and j of calculate_kdj: ewm(...).mean() skips a NaN and repeats the last
\* average, so it has a value from the first position where rsv has one
KdjDefined(s, i) == \E j \in 1..i : RsvDefined(s, j)

\* calculate_atr: max(axis=1) skips the NaN of the first bar's previous close,
\* so the true range has a value at every position
AtrDefined(s, i) == RollingDefined(14, i)

\* calculate_obv: the lambda maps the first bar's NaN price change to 0
ObvDefined(s, i) == TRUE

\* three times the typical price
Tp3(s, j) == s[j].high + s[j].low + s[j].close

\* negative_flow at position j, in units of 3 * 10000
NegativeFlow(s, j) ==
    IF j >= 2 /\ Tp3(s, j) < Tp3(s, j - 1) THEN Tp3(s, j) * (s[j].volume \div 10000) ELSE 0

\* calculate_mfi: the first bar's flows are 0 (where(..., 0.0)), a zero negative
\* flow sum is replaced by NA
MfiDefined(s, i) ==
    /\ RollingDefined(14, i)
    /\ SumF([j \in 1..Len(s) |-> NegativeFlow(s, j)], Max2(1, i - 13), i) # 0

\* sma_tp of calculate_cci has a value at position j
SmaTpDefined(s, j) == RollingDefined(20, j)
\* typical_price - sma_tp at position j is not zero (in units of 3 * 20)
TpDeviates(s, j) ==
    20 * Tp3(s, j) # SumF([m \in 1..Len(s) |-> Tp3(s, m)], Max2(1, j - 19), j)

\* mean_dev of calculate_cci: a rolling mean over 20 values of |tp - sma_tp|,
\* which themselves start at the 20th bar
MeanDevDefined(s, i) ==
    /\ i >= 1
    /\ Cardinality({j \in Max2(1, i - 19)..i : SmaTpDefined(s, j)}) >= MinPeriods(20)

\* calculate_cci: 0 / 0 where the mean deviation is zero
CciDefined(s, i) ==
    /\ MeanDevDefined(s, i)
    /\ \E j \in Max2(1, i - 19)..i : SmaTpDefined(s, j) /\ TpDeviates(s, j)

\* the keys calculate_all_indicators may report (adx, plus_di, minus_di apart)
IndicatorKeys ==
    {"ma5", "ma10", "ma20", "ma60", "rsi", "macd", "macd_signal", "macd_hist",
     "bollinger_upper", "bollinger_middle", "bollinger_lower",
     "kdj_k", "kdj_d", "kdj_j", "atr", "obv", "mfi", "cci"}

\* not pd.isna(<indicator>.iloc[i])
Defined(key, s, i) ==
    CASE key = "ma5" -> RollingDefined(5, i)
      [] key = "ma10" -> RollingDefined(10, i)
      [] key = "ma20" -> RollingDefined(20, i)
      [] key = "ma60" -> RollingDefined(60, i)
      [] key = "rsi" -> RsiDefined(s, i)
      [] key \in {"macd", "macd_signal", "macd_hist"} -> MacdDefined(s, i)
      [] key \in {"bollinger_upper", "bollinger_middle", "bollinger_lower"} ->
             BollingerDefined(s, i)
      [] key \in {"kdj_k", "kdj_d", "kdj_j"} -> KdjDefined(s, i)
      [] key = "atr" -> AtrDefined(s, i)
      [] key = "obv" -> ObvDefined(s, i)
      [] key = "mfi" -> MfiDefined(s, i)
      [] key = "cci" -> CciDefined(s, i)

\* the indicators whose numbers the model carries
ValueKeys == {"ma5", "ma10", "ma20", "ma60", "rsi"}

\* the rounded number reported for a key of ValueKeys at position i
Value(key, s, i) ==
    CASE key = "ma5" -> CalculateMa(s, 5, i)
      [] key = "ma10" -> CalculateMa(s, 10, i)
      [] key = "ma20" -> CalculateMa(s, 20, i)
      [] key = "ma60" -> CalculateMa(s, 60, i)
      [] key = "rsi" -> CalculateRsi(s, i)

-----------------------------------------------------------------------------
(* The analysis of one normalized series *)

\* JSON values of the report
JsonNone == [k |-> "none", x |-> 0]
JsonNum(x) == [k |-> "num", x |-> x]
\* a list of one number
JsonList1(x) == [k |-> "list", x |-> x]

\* date.strftime('%Y-%m-%d')
StrftimeDay(ts) == [day |-> ts \div 24, hm |-> -1]
\* date.strftime('%Y-%m-%d %H:%M' if date.hour != 0 else '%Y-%m-%d')
StrftimeRecent(ts) == [day |-> ts \div 24, hm |-> IF ts % 24 # 0 THEN ts % 24 ELSE -1]

\* mutant of FindSupportResistance: the extremes of the whole series
FindSupportResistanceAll(s, period) ==
    [support |-> LowMin(s, 1, Len(s)), resistance |-> HighMax(s, 1, Len(s))]

\* find_support_resistance(period): min low and max high of df.tail(period)
FindSupportResistance(s, period) ==
    LET a == Max2(1, Len(s) - period + 1)
    IN  [support |-> LowMin(s, a, Len(s)), resistance |-> HighMax(s, a, Len(s))]

\* mutant of Ma5Above: ma5 >= ma10
Ma5AboveOrEqual(s, i) ==
    /\ i >= 10
    /\ 2 * SumF([j \in 1..Len(s) |-> s[j].close], i - 4, i)
          >= SumF([j \in 1..Len(s) |-> s[j].close], i - 9, i)

\* ma5 > ma10 at position i, both defined (a comparison with NaN is false)
Ma5Above(s, i) ==
    /\ RollingDefined(5, i) /\ RollingDefined(10, i)
    /\ 2 * MaSum(s, 5, i) > MaSum(s, 10, i)
Ma5Below(s, i) ==
    /\ RollingDefined(5, i) /\ RollingDefined(10, i)
    /\ 2 * MaSum(s, 5, i) < MaSum(s, 10, i)
\* ma5 <= ma10 and ma5 >= ma10 at position i
Ma5AtMost(s, i) ==
    /\ RollingDefined(5, i) /\ RollingDefined(10, i)
    /\ 2 * MaSum(s, 5, i) <= MaSum(s, 10, i)
Ma5AtLeast(s, i) ==
    /\ RollingDefined(5, i) /\ RollingDefined(10, i)
    /\ 2 * MaSum(s, 5, i) >= MaSum(s, 10, i)

\* the events find_technical_signals appends for bar i, in its order (the MACD
\* crossings are those of the positions whose MACD numbers are carried)
SignalsAt(s, i) ==
    LET date == StrftimeDay(s[i].date)
        rsi == IF i <= 1 THEN <<>>
               ELSE IF RsiAbove70(s, i) /\ RsiDefined(s, i - 1) /\ ~RsiAbove70(s, i - 1)
                    THEN <<[date |-> date, type |-> "RSI_overbought"]>>
               ELSE IF RsiBelow30(s, i) /\ RsiDefined(s, i - 1) /\ ~RsiBelow30(s, i - 1)
                    THEN <<[date |-> date, type |-> "RSI_oversold"]>>
               ELSE <<>>
        mc == IF i <= 1 \/ i \notin MacdCarried(s) THEN <<>>
              ELSE LET l == CalculateMacd(s)
                   IN  IF /\ RatLess(l.signal_line[i], l.macd[i])
                          /\ ~RatLess(l.signal_line[i - 1], l.macd[i - 1])
                       THEN <<[date |-> date, type |-> "MACD_golden_cross"]>>
                       ELSE IF /\ RatLess(l.macd[i], l.signal_line[i])
                               /\ ~RatLess(l.macd[i - 1], l.signal_line[i - 1])
                       THEN <<[date |-> date, type |-> "MACD_dead_cross"]>>
                       ELSE <<>>
        ma ==  IF i <= 1 THEN <<>>
               ELSE IF Ma5Above(s, i) /\ Ma5AtMost(s, i - 1)
                    THEN <<[date |-> date, type |-> "MA_golden_cross"]>>
               ELSE IF Ma5Below(s, i) /\ Ma5AtLeast(s, i - 1)
                    THEN <<[date |-> date, type |-> "MA_dead_cross"]>>
               ELSE <<>>
    IN  rsi \o mc \o ma

\* mutant of SignalsFrom: the events of a later bar are put first
RECURSIVE SignalsFromNewestFirst(_, _)
SignalsFromNewestFirst(s, i) ==
    IF i > Len(s) THEN <<>> ELSE SignalsFromNewestFirst(s, i + 1) \o SignalsAt(s, i)

\* for i in range(len(self.df) - recent_days, len(self.df)): the events of the
\* bars from i on, oldest bar first
RECURSIVE SignalsFrom(_, _)
SignalsFrom(s, i) == IF i > Len(s) THEN <<>> ELSE SignalsAt(s, i) \o SignalsFrom(s, i + 1)

\* find_technical_signals: the last min(20, len(df)) bars
FindTechnicalSignals(s) == SignalsFrom(s, Len(s) - Min2(20, Len(s)) + 1)

\* mutant of GenerateRiskWarnings: the list is an attribute of the calculator
\* that every call extends
GenerateRiskWarningsKept(s) ==
    IF calls = <<>> THEN <<>>
    ELSE calls[Len(calls)].result.riskWarnings \o <<"below_ma20">>

\* generate_risk_warnings: rules on the latest bar, in the order of the code
GenerateRiskWarnings(s) ==
    LET n == Len(s)
        volDefined == RollingDefined(20, n)
        rsi == IF RsiAbove70(s, n) THEN <<"rsi_overbought">>
               ELSE IF RsiBelow30(s, n) THEN <<"rsi_oversold">> ELSE <<>>
        vol == IF volDefined /\ 200 * s[n].volume < 7 * VolumeSum(s, n)
               THEN <<"volume_contraction">>
               ELSE IF volDefined /\ 20 * s[n].volume > 2 * VolumeSum(s, n)
               THEN <<"volume_spike">> ELSE <<>>
        price == IF RollingDefined(20, n) /\ 2000 * s[n].close < 95 * MaSum(s, 20, n)
                 THEN <<"below_ma20">> ELSE <<>>
    IN  rsi \o vol \o price

\* one element of indicators_by_date
Snapshot(s, i) ==
    [date   |-> StrftimeRecent(s[i].date),
     close  |-> s[i].close,
     volume |-> RoundDiv(s[i].volume * 100, 10000),
     has    |-> {key \in IndicatorKeys : Defined(key, s, i)},
     val    |-> [key \in ValueKeys |-> Value(key, s, i)]]

\* mutant of CalculateAllIndicators: the snapshots of df.head(recent_days)
CalculateAllIndicatorsHead(s, recent_days) ==
    LET n == Len(s)
    IN  [indicators_by_date |-> [k \in 1..Min2(n, recent_days) |-> Snapshot(s, k)],
         latest_values |->
            [has |-> {key \in IndicatorKeys : Defined(key, s, n)},
             val |-> [key \in ValueKeys |->
                        IF Defined(key, s, n) THEN JsonList1(Value(key, s, n).x)
                        ELSE JsonNone]]]

\* calculate_all_indicators(recent_days): the snapshots of df.tail(recent_days)
\* and the latest values, each a list of one number
CalculateAllIndicators(s, recent_days) ==
    LET n == Len(s)
        a == Max2(1, n - recent_days + 1)
    IN  [indicators_by_date |-> [k \in 1..(n - a + 1) |-> Snapshot(s, a + k - 1)],
         latest_values |->
            [has |-> {key \in IndicatorKeys : Defined(key, s, n)},
             val |-> [key \in ValueKeys |->
                        IF Defined(key, s, n) THEN JsonList1(Value(key, s, n).x)
                        ELSE JsonNone]]]

\* calculate_comprehensive_analysis(recent_points): the TimeframeResult
CalculateComprehensiveAnalysis(s, recent_points) ==
    LET n == Len(s)
        detailed == CalculateAllIndicators(s, recent_points)
        ma20 == CalculateMa(s, 20, n)
        ma60 == CalculateMa(s, 60, n)
        lv == detailed.latest_values
    IN  [latest |->
            [close  |-> s[n].close,
             volume |-> RoundDiv(s[n].volume * 100, 10000),
             \* "ma20": ... if not pd.isna(...) else None, then **latest_values
             ma20   |-> IF "ma20" \in lv.has THEN lv.val["ma20"]
                        ELSE IF ma20.nan THEN JsonNone ELSE JsonNum(ma20.x),
             ma60   |-> IF "ma60" \in lv.has THEN lv.val["ma60"]
                        ELSE IF ma60.nan THEN JsonNone ELSE JsonNum(ma60.x),
             has    |-> lv.has,
             val    |-> lv.val],
         supportResistance |-> [period20 |-> FindSupportResistance(s, 20)],
         signals |-> FindTechnicalSignals(s),
         riskWarnings |-> GenerateRiskWarnings(s),
         recent |-> detailed.indicators_by_date]

-----------------------------------------------------------------------------
(* Inputs *)

\* three date strings: day 1, and day 2 in two spellings
Dates == {DateV(24, 0), DateV(48, 0), DateV(48, 1)}

\* well-formed records: numbers given as numbers or as strings, turnover given
\* or not; the second one has high = max(open, close) and low = min(open, close)
ValidItems ==
    {Item(d, NumV(1000), NumV(1010), StrV(1020), NumV(990), StrV(5), StrV(1)) : d \in Dates}
    \cup {Item(d, NumV(1010), NumV(1000), NumV(1010), NumV(1000), NumV(7), Absent) : d \in Dates}

\* records with one defect each
OddItems ==
    {Item(DateV(24, 0), NumV(1000), NumV(1010), NumV(1020), Absent, NumV(5), Absent),
     Item(DateV(24, 0), Text, NumV(1010), NumV(1020), NumV(990), NumV(5), Absent),
     Item(DateV(24, 0), NumV(1000), NumV(1000), NumV(1000), NumV(0), NumV(5), Absent),
     Item(DateV(24, 0), NumV(1000), NumV(1010), NumV(1005), NumV(990), NumV(5), Absent),
     Item(DateV(24, 0), NumV(1000), NumV(1010), NumV(1020), NumV(1005), NumV(5), Absent),
     Item(DateV(24, 0), NumV(1000), NumV(1010), NumV(1020), NumV(990), NumV(5), Text),
     Item(DateV(24, 0), NumV(1000), NumV(1010), NumV(1020), NumV(990), NumV(-5), Absent),
     Item(Text, NumV(1000), NumV(1010), NumV(1020), NumV(990), NumV(5), Absent),
     NonObject}

Items == ValidItems \cup OddItems

\* the raw record lists of at most MaxLen records
RawLists == UNION {[1..n -> Items] : n \in 0..MaxLen}

\* the i-th bar of a generated daily series: day 9 + i, prices and volume
\* varying with i, every bar well-formed
FillerBar(i) ==
    LET o == 1000 + 10 * (i % 5)
        c == o + 10 * ((i % 3) - 1)
    IN  Item(DateV(24 * (9 + i), 0), NumV(o), NumV(c), NumV(Max2(o, c) + 10),
             NumV(Min2(o, c) - 10), NumV(5 + (i % 4)), Absent)

\* n generated bars in chronological order
Filler(n) == [i \in 1..n |-> FillerBar(i)]

\* records put before and after a generated series: a well-formed bar newer
\* than every generated bar, one older than every generated bar, a malformed one
CapItems ==
    {Item(DateV(24 * 2000, 0), NumV(1200), NumV(1210), NumV(1220), NumV(1190), NumV(9), Absent),
     Item(DateV(24, 0), NumV(900), NumV(910), NumV(920), NumV(890), NumV(3), Absent),
     Item(DateV(48, 0), NumV(1000), NumV(1010), NumV(1005), NumV(990), NumV(5), Absent)}

\* none or one record of CapItems
CapEnds == {<<>>} \cup {<<x>> : x \in CapItems}

\* long raw lists: a generated series of about KlineCap bars between two ends
CapLists ==
    {pre \o Filler(n) \o post :
        pre \in CapEnds, post \in CapEnds,
        n \in (KlineCap - CapSlack)..(KlineCap + CapSlack)}

-----------------------------------------------------------------------------
(* The calculator on its own: TechnicalIndicatorCalculator(kline_data) and   *)
(* then calculate_comprehensive_analysis(recent_points)                      *)

\* the timeframe names main looks for, in its order
Labels == <<"day", "60m", "5m">>

NoResult == [latest |-> <<>>, supportResistance |-> <<>>, signals |-> <<>>,
             riskWarnings |-> <<>>, recent |-> <<>>]

\* mutant of RecentPoints: every timeframe gets the default recent_points=5
RecentPointsDefault(label) == 5

\* recent_points of main: 5 for day, 20 for 60m, 48 for 5m
RecentPoints(label) == IF label = "day" THEN 5 ELSE IF label = "60m" THEN 20 ELSE 48

InitCalc(inputs) ==
    /\ kline_data \in inputs
    /\ pc = "new"
    /\ df = <<>>
    /\ raised = "none"
    /\ result = NoResult
    /\ argv = [given |-> FALSE]
    /\ kline_json = [read |-> FALSE]
    /\ parsed = [kind |-> "none"]
    /\ ki = 0
    /\ timeframes = <<>>
    /\ stdout = <<>>
    /\ calls = <<>>
    /\ volume_anomalies = <<>>
    /\ macd = NoMacd
    /\ order = Labels

\* mutant of CallerList: the cap is applied to the caller's list in place
CallerListCapped(kline) == Truncate(kline)

\* the caller's list after the constructor: the cap rebinds the local name to
\* a slice (a copy), the loop only reads the records
CallerList(kline) == kline

\* self.df after an analysis: every method derives new series from it and
\* assigns none of its columns
SelfDf(d, recent_points) == d

\* one call of calculate_comprehensive_analysis(recent_points): its locals, its
\* return value, and the call added to the history
Call(recent_points) ==
    LET r == CalculateComprehensiveAnalysis(df, recent_points)
    IN  /\ volume_anomalies' = FindVolumeAnomalies(df)
        /\ macd' = CalculateMacd(df)
        /\ result' = r
        /\ calls' = Append(calls, [series |-> df, recent_points |-> recent_points,
                                   result |-> r])
        /\ df' = SelfDf(df, recent_points)

\* __init__: self.df = self._prepare_dataframe(kline_data)
Construct ==
    /\ pc = "new"
    /\ \E out \in PrepareDataframe(kline_data) :
          /\ raised' = out.exc
          /\ df' = out.df
          /\ pc' = IF out.exc = "none" THEN "ready" ELSE "raised"
    /\ kline_data' = CallerList(kline_data)
    /\ UNCHANGED <<argv, kline_json, parsed, ki, timeframes, stdout, result>>
    /\ UNCHANGED <<calls, volume_anomalies, macd, order>>

\* calculate_comprehensive_analysis(recent_points) on the constructed calculator
Analyse ==
    /\ pc = "ready"
    /\ \E label \in {"day", "60m", "5m"} : Call(RecentPoints(label))
    /\ pc' = "analysed"
    /\ UNCHANGED <<argv, kline_json, parsed, ki, timeframes, stdout, kline_data, raised, order>>

NextCalc == Construct \/ Analyse

\* the calculator on every raw record list of at most MaxLen records
SpecNormalize == InitCalc(RawLists) /\ [][NextCalc]_vars

-----------------------------------------------------------------------------
(* Properties of the normalizer *)

\* a record the bar contract accepts: every required field, numeric prices and
\* volume, positive prices, high and low consistent with open and close
WellFormed(item) ==
    /\ HasRequired(item)
    /\ ConvertsOHLCV(item)
    /\ ~PriceAbnormal(item)
    /\ ~PriceLogicError(item)

\* every date string of the input parses
AllDatesParse(kline) ==
    \A i \in 1..Len(kline) : kline[i].obj /\ kline[i].d.k # "absent" => DateParses(kline[i].d)

\* the timestamps of the well-formed records of a list
WellFormedStamps(kline) ==
    {ToDatetime(kline[i].d) : i \in {j \in 1..Len(kline) : WellFormed(kline[j])}}

\* C6: _prepare_dataframe drops every record that misses a required field, has
\* a non-numeric or non-positive price or volume field or an inconsistent
\* high/low, and keeps every other record: the series has one bar for each
\* timestamp of a well-formed record (stated for inputs whose dates all parse)
C6_KeepsEveryWellFormedRecord ==
    (pc \in {"ready", "raised"} /\ AllDatesParse(kline_data)
        /\ WellFormedStamps(kline_data) # {})
    => /\ pc = "ready"
       /\ {df[i].date : i \in 1..Len(df)} = WellFormedStamps(kline_data)
       /\ Len(df) = Cardinality(WellFormedStamps(kline_data))

\* C7: after _prepare_dataframe the bars are in strictly ascending timestamp
\* order, so no timestamp occurs twice
C7_StrictlyAscending ==
    pc = "ready" => \A i \in 1..(Len(df) - 1) : df[i].date < df[i + 1].date

\* C7 witness: a series built from an input that was out of order and held a
\* repeated timestamp
C7_Witness ==
    /\ pc = "ready"
    /\ Len(df) >= 2
    /\ \E i, j \in 1..Len(kline_data) :
          /\ i < j /\ Keep(kline_data[i]) /\ Keep(kline_data[j])
          /\ ToDatetime(kline_data[i].d) > ToDatetime(kline_data[j].d)
    /\ \E i, j \in 1..Len(kline_data) :
          /\ i < j /\ Keep(kline_data[i]) /\ Keep(kline_data[j])
          /\ ToDatetime(kline_data[i].d) = ToDatetime(kline_data[j].d)

\* the bar made of the last kept record of the input with timestamp ts
LastWritten(kline, ts) ==
    LET k == Truncate(kline)
        last == CHOOSE i \in 1..Len(k) :
                   /\ Keep(k[i]) /\ ToDatetime(k[i].d) = ts
                   /\ \A j \in (i + 1)..Len(k) : ~(Keep(k[j]) /\ ToDatetime(k[j].d) = ts)
    IN  [Row(k[last]) EXCEPT !.date = ts]

\* C8: when several valid records share a timestamp, the bar kept for it is
\* the one that comes last in the input
C8_LastWriteWins ==
    pc = "ready" => \A i \in 1..Len(df) : df[i] = LastWritten(kline_data, df[i].date)

\* the calculator on raw lists around the 500-record cap
SpecCap == InitCalc(CapLists) /\ [][NextCalc]_vars

\* a record the loop keeps and whose date parses
Usable(item) == Keep(item) /\ DateParses(item.d)

\* C9: of more than 500 raw records only the 500 most recent are considered:
\* the series has at most 500 bars, every usable record more recent than the
\* oldest bar of the series is in the series, and the size of the input is
\* never the reason of an error
C9_MostRecent500 ==
    (pc \in {"ready", "raised"} /\ Len(kline_data) > KlineCap)
    => /\ Len(df) <= KlineCap
       /\ pc = "raised" => raised \in {"ValueError: no valid kline data",
                                       "ValueError: unparsable date"}
       /\ pc = "ready" =>
            \A i \in 1..Len(kline_data) :
               (Usable(kline_data[i]) /\ ToDatetime(kline_data[i].d) > df[1].date)
               => \E k \in 1..Len(df) : df[k].date = ToDatetime(kline_data[i].d)

-----------------------------------------------------------------------------
(* main: the command line, the JSON text and its parsed value *)

\* a command-line parameter is read as a file path when shorter than this
PathLimit == 500
\* longest base64 parameter accepted
ParamLimit == 200000
\* longest JSON text accepted
JsonLimit == 2000000
\* main keeps the last 1000 records of a series
SeriesTrim == 1000

\* the keys a parsed object of the model may hold
ObjectKeys == {"day", "60m", "5m", "other"}

\* a parsed value that is a list of records
ListValue(items) == [islist |-> TRUE, items |-> items]
\* a parsed value that is no list (a number, a string, an object)
NotAList == [islist |-> FALSE, items |-> <<>>]

\* json.loads results: a scalar, a list, or an object with the keys `keys`
ParsedScalar == [kind |-> "scalar", items |-> <<>>, keys |-> {}, val |-> <<>>]
ParsedList(items) == [kind |-> "list", items |-> items, keys |-> {}, val |-> <<>>]
ParsedObject(f) == [kind |-> "dict", items |-> <<>>, keys |-> DOMAIN f, val |-> f]

\* a JSON text: its length, whether it parses, and what it parses to
JsonText(len, valid, value) == [len |-> len, valid |-> valid, value |-> value, read |-> TRUE]

\* kline_json = None
NoText == [len |-> 0, valid |-> FALSE, value |-> ParsedScalar, read |-> FALSE]

\* sys.argv: no parameter
ArgvMissing ==
    [given |-> FALSE, json_suffix |-> FALSE, len |-> 0, readable |-> FALSE,
     text |-> JsonText(0, FALSE, ParsedScalar)]
\* sys.argv[1] is a path ending in .json; the file exists or not, and holds text
ArgvFile(len, exists, text) ==
    [given |-> TRUE, json_suffix |-> TRUE, len |-> len, readable |-> exists, text |-> text]
\* sys.argv[1] is anything else: base64 that decodes (to text) or not
ArgvBase64(len, decodes, text) ==
    [given |-> TRUE, json_suffix |-> FALSE, len |-> len, readable |-> decodes, text |-> text]

\* one printed document: its top-level keys and their values
ErrorDocument(message, json_len, param_len) ==
    [fields |-> {"error", "message", "data_info"},
     timeframes |-> <<>>, detail |-> <<>>, recent5 |-> <<>>,
     message |-> message,
     data_info |-> [kline_json_length |-> json_len, input_param_length |-> param_len]]
SuccessDocument(tf) ==
    [fields |-> {"timeframes"},
     timeframes |-> tf, detail |-> <<>>, recent5 |-> <<>>,
     message |-> "", data_info |-> <<>>]
\* mutant of MirroredDocument: the mirror is taken from the finest timeframe
MirroredDocumentFinest(tf) ==
    LET k == IF "5m" \in DOMAIN tf THEN "5m" ELSE IF "60m" \in DOMAIN tf THEN "60m" ELSE "day"
    IN  [fields |-> {"timeframes", "detail", "recent5"},
         timeframes |-> tf, detail |-> tf[k].latest, recent5 |-> tf[k].recent,
         message |-> "", data_info |-> <<>>]

\* the document with the top-level mirror of the day timeframe
MirroredDocument(tf) ==
    [fields |-> {"timeframes", "detail", "recent5"},
     timeframes |-> tf, detail |-> tf["day"].latest, recent5 |-> tf["day"].recent,
     message |-> "", data_info |-> <<>>]

\* mutant of Fail: the except branch prints what has been computed so far
FailPartial(message) ==
    /\ stdout' = Append(stdout, SuccessDocument(timeframes))
    /\ pc' = "done"

\* the except branch of main: print the error document and return
Fail(message) ==
    /\ stdout' = Append(stdout,
          ErrorDocument(message,
                        IF kline_json.read THEN kline_json.len ELSE 0,
                        IF argv.given THEN argv.len ELSE 0))
    /\ pc' = "done"

\* series[-1000:] if len(series) > 1000 else series
TrimSeries(series) ==
    IF Len(series) > SeriesTrim
    THEN SubSeq(series, Len(series) - SeriesTrim + 1, Len(series))
    ELSE series

\* mutant of WithKey: every result is stored under "day"
WithKeyDay(tf, label, r) ==
    [k \in DOMAIN tf \cup {"day"} |-> IF k = "day" THEN r ELSE tf[k]]

\* timeframes with timeframes[label] = r
WithKey(tf, label, r) ==
    [k \in DOMAIN tf \cup {label} |-> IF k = label THEN r ELSE tf[k]]

-----------------------------------------------------------------------------
(* main: the steps *)

\* lines 513-545: take the JSON text from the file or from the base64 parameter
ReadInput ==
    /\ pc = "start"
    /\ IF ~argv.given
       THEN Fail("missing kline parameter") /\ UNCHANGED kline_json
       ELSE IF argv.json_suffix /\ argv.len < PathLimit
       THEN IF argv.readable
            THEN kline_json' = argv.text /\ pc' = "read" /\ UNCHANGED stdout
            ELSE Fail("reading the file failed") /\ UNCHANGED kline_json
       ELSE IF argv.len > ParamLimit
       THEN Fail("input too large") /\ UNCHANGED kline_json
       ELSE IF ~argv.readable
       THEN Fail("base64 decoding failed") /\ UNCHANGED kline_json
       ELSE kline_json' = argv.text /\ pc' = "read" /\ UNCHANGED stdout
    /\ UNCHANGED <<argv, parsed, ki, timeframes, kline_data, df, raised, result>>
    /\ UNCHANGED <<calls, volume_anomalies, macd, order>>

\* lines 547-560: check the size, parse the text, start the output
ParseJson ==
    /\ pc = "read"
    /\ IF kline_json.len > JsonLimit
       THEN Fail("JSON too large") /\ UNCHANGED <<parsed, ki>>
       ELSE IF ~kline_json.valid
       THEN Fail("JSON parsing failed") /\ UNCHANGED <<parsed, ki>>
       ELSE /\ parsed' = kline_json.value
            /\ ki' = 1
            /\ pc' = "dispatch"
            /\ UNCHANGED stdout
    /\ UNCHANGED <<argv, kline_json, timeframes, kline_data, df, raised, result>>
    /\ UNCHANGED <<calls, volume_anomalies, macd, order>>

\* compute_for_series(series, label), and where main goes next: `after` when
\* the call returns, the except branch when the calculator raises
ComputeForSeries(series, label, after) ==
    IF ~series.islist \/ Len(series.items) = 0
    THEN pc' = after /\ UNCHANGED <<timeframes, stdout>>
    ELSE \E out \in PrepareDataframe(TrimSeries(series.items)) :
            IF out.exc # "none"
            THEN Fail(out.exc) /\ UNCHANGED timeframes
            ELSE /\ timeframes' = WithKey(timeframes, label,
                       CalculateComprehensiveAnalysis(out.df, RecentPoints(label)))
                 /\ pc' = after
                 /\ UNCHANGED stdout

\* lines 571-574: one turn of the loop over "day", "60m", "5m"
DispatchKey ==
    /\ pc = "dispatch"
    /\ parsed.kind = "dict"
    /\ ki \in 1..Len(Labels)
    /\ LET key == order[ki]
           after == IF ki = Len(Labels) THEN "emit" ELSE "dispatch"
       IN  IF key \in parsed.keys
           THEN ComputeForSeries(parsed.val[key], key, after)
           ELSE pc' = after /\ UNCHANGED <<timeframes, stdout>>
    /\ ki' = ki + 1
    /\ UNCHANGED <<argv, kline_json, parsed, kline_data, df, raised, result>>
    /\ UNCHANGED <<calls, volume_anomalies, macd, order>>

\* lines 575-576: a flat list is the day series
DispatchList ==
    /\ pc = "dispatch"
    /\ parsed.kind = "list"
    /\ ComputeForSeries(ListValue(parsed.items), "day", "emit")
    /\ UNCHANGED <<argv, kline_json, parsed, ki, kline_data, df, raised, result>>
    /\ UNCHANGED <<calls, volume_anomalies, macd, order>>

\* lines 577-578: neither an object nor a list
DispatchUnsupported ==
    /\ pc = "dispatch"
    /\ parsed.kind = "scalar"
    /\ Fail("unsupported input format")
    /\ UNCHANGED <<argv, kline_json, parsed, ki, timeframes, kline_data, df, raised, result>>
    /\ UNCHANGED <<calls, volume_anomalies, macd, order>>

\* lines 580-594: print the report, with the top-level mirror when day is there
PrintOutput ==
    /\ pc = "emit"
    /\ stdout' = Append(stdout,
          IF "day" \in DOMAIN timeframes
          THEN MirroredDocument(timeframes)
          ELSE SuccessDocument(timeframes))
    /\ pc' = "done"
    /\ UNCHANGED <<argv, kline_json, parsed, ki, timeframes, kline_data, df, raised, result>>
    /\ UNCHANGED <<calls, volume_anomalies, macd, order>>

Next ==
    \/ ReadInput
    \/ ParseJson
    \/ DispatchKey
    \/ DispatchList
    \/ DispatchUnsupported
    \/ PrintOutput

-----------------------------------------------------------------------------
(* main: the inputs *)

\* one well-formed bar of day 1, one of day 2
BarDay1 == Item(DateV(24, 0), NumV(1000), NumV(1010), StrV(1020), NumV(990), StrV(5), StrV(1))
BarDay2 == Item(DateV(48, 1), NumV(1010), NumV(1000), NumV(1010), NumV(1000), NumV(7), Absent)
\* a record with low > open, which the normalizer drops
BarLowAboveOpen ==
    Item(DateV(24, 0), NumV(1000), NumV(1010), NumV(1020), NumV(1005), NumV(5), Absent)

\* what an object may hold under "day", "60m" or "5m": no list, an empty list,
\* a list whose records are all dropped, and lists with 1, 2 and MainBars bars
SeriesValues ==
    {NotAList,
     ListValue(<<>>),
     ListValue(<<BarLowAboveOpen>>),
     ListValue(<<BarDay1>>),
     ListValue(<<BarDay2, BarLowAboveOpen, BarDay1>>),
     ListValue(Filler(MainBars))}

\* the parsed objects: any subset of the keys, "other" holding no list
ParsedObjects ==
    UNION {{ParsedObject(f) : f \in {g \in [K -> SeriesValues] :
                                        "other" \in K => g["other"] = NotAList}} :
           K \in SUBSET ObjectKeys}

\* the parsed flat lists, one of them longer than main's 1000-record trim
ParsedLists ==
    {ParsedList(<<>>), ParsedList(<<BarLowAboveOpen>>), ParsedList(<<BarDay2, BarDay1>>),
     ParsedList(Filler(SeriesTrim + 1))}

\* the JSON texts: too long, not JSON, and one text for each parsed value
Texts ==
    {JsonText(JsonLimit + 1, TRUE, ParsedList(<<BarDay1>>)),
     JsonText(10, FALSE, ParsedScalar)}
    \cup {JsonText(JsonLimit, TRUE, v) : v \in {ParsedScalar} \cup ParsedLists \cup ParsedObjects}

\* the command lines
ArgvInputs ==
    {ArgvMissing,
     ArgvFile(20, FALSE, JsonText(0, FALSE, ParsedScalar)),
     ArgvFile(PathLimit, FALSE, JsonText(0, FALSE, ParsedScalar)),
     ArgvBase64(ParamLimit + 1, TRUE, JsonText(10, TRUE, ParsedList(<<BarDay1>>))),
     ArgvBase64(40, FALSE, JsonText(0, FALSE, ParsedScalar))}
    \cup {ArgvFile(PathLimit - 1, TRUE, t) : t \in Texts}
    \cup {ArgvBase64(ParamLimit, TRUE, t) : t \in {u \in Texts : u.value.kind # "dict"}}

Init ==
    /\ argv \in ArgvInputs
    /\ pc = "start"
    /\ kline_json = NoText
    /\ parsed = [kind |-> "none"]
    /\ ki = 0
    /\ timeframes = <<>>
    /\ stdout = <<>>
    /\ kline_data = <<>>
    /\ df = <<>>
    /\ raised = "none"
    /\ result = NoResult
    /\ calls = <<>>
    /\ volume_anomalies = <<>>
    /\ macd = NoMacd
    /\ order = Labels

\* main on every command line of ArgvInputs
Spec == Init /\ [][Next]_vars

-----------------------------------------------------------------------------
(* Properties of main *)

RecognizedKeys == {Labels[i] : i \in 1..Len(Labels)}

\* the timeframe names the parsed object supplies
Supplied == parsed.keys \cap RecognizedKeys

\* a supplied value is a list with at least one record the normalizer keeps
HasValidBar(v) == v.islist /\ \E i \in 1..Len(v.items) : Usable(v.items[i])

\* a supplied value is a non-empty list whose records are all dropped
AllRejected(v) ==
    v.islist /\ Len(v.items) > 0 /\ \A i \in 1..Len(v.items) : ~Keep(v.items[i])

IsErrorDocument(doc) ==
    {"error", "message"} \subseteq doc.fields /\ "timeframes" \notin doc.fields
IsSuccessDocument(doc) ==
    "timeframes" \in doc.fields /\ "error" \notin doc.fields

\* main has returned after parsing an object
DoneWithObject == pc = "done" /\ parsed.kind = "dict"

\* C1: with a timeframe mapping, the failure of one timeframe (a non-empty
\* series whose records are all rejected) does not abort the others: main prints
\* a report in which every supplied timeframe with a valid bar is present and
\* the failed one is absent
C1_FailureDoesNotAbortOthers ==
    DoneWithObject
    => /\ Len(stdout) = 1
       /\ IsSuccessDocument(stdout[1])
       /\ \A key \in Supplied :
             /\ HasValidBar(parsed.val[key]) => key \in DOMAIN stdout[1].timeframes
             /\ AllRejected(parsed.val[key]) => key \notin DOMAIN stdout[1].timeframes

\* in a printed report every supplied timeframe that can be computed is there,
\* and nothing else
ReportComplete(doc) ==
    parsed.kind = "dict" =>
        DOMAIN doc.timeframes = {key \in Supplied : HasValidBar(parsed.val[key])}

\* main is at a line from which it goes on: one of its steps can be taken
CanStep ==
    \/ pc \in {"start", "read", "emit"}
    \/ pc = "dispatch" /\ parsed.kind \in {"list", "scalar"}
    \/ pc = "dispatch" /\ parsed.kind = "dict" /\ ki \in 1..Len(Labels)

\* C2: for every command line main returns after printing exactly one
\* document, which is either an error document or a success document that is
\* not partially populated; before that it has printed nothing and can go on
C2_OneDocument ==
    /\ pc = "done" =>
          /\ Len(stdout) = 1
          /\ \/ IsErrorDocument(stdout[1])
             \/ IsSuccessDocument(stdout[1]) /\ ReportComplete(stdout[1])
    /\ pc # "done" => Len(stdout) = 0 /\ CanStep

\* C2 witness: main failed on a series after it had computed another one
C2_Witness ==
    /\ DoneWithObject
    /\ Len(stdout) = 1
    /\ IsErrorDocument(stdout[1])
    /\ DOMAIN timeframes # {}

\* C3: a parsed input that is neither a flat list nor an object with one of
\* the keys "day", "60m", "5m" gives an error document
C3_UnsupportedShapeFails ==
    (/\ pc = "done"
     /\ \/ parsed.kind = "scalar"
        \/ parsed.kind = "dict" /\ Supplied = {})
    => Len(stdout) = 1 /\ IsErrorDocument(stdout[1])

\* C4: when every supplied series normalizes, the keys of `timeframes` are
\* exactly the supplied timeframe names; a flat list gives exactly "day"
C4_ExactKeys ==
    /\ (DoneWithObject /\ \A key \in Supplied : HasValidBar(parsed.val[key]))
       => /\ Len(stdout) = 1
          /\ IsSuccessDocument(stdout[1])
          /\ DOMAIN stdout[1].timeframes = Supplied
    /\ (pc = "done" /\ parsed.kind = "list" /\ HasValidBar(ListValue(parsed.items)))
       => /\ Len(stdout) = 1
          /\ IsSuccessDocument(stdout[1])
          /\ DOMAIN stdout[1].timeframes = {"day"}

\* C4 witness: "day" and "60m" supplied and computed, "5m" not supplied
C4_Witness ==
    /\ DoneWithObject
    /\ Supplied = {"day", "60m"}
    /\ \A key \in Supplied : HasValidBar(parsed.val[key])
    /\ Len(stdout) = 1
    /\ "5m" \notin DOMAIN stdout[1].timeframes

\* C5: a success document has the top-level mirror exactly when `timeframes`
\* holds "day"; the mirror equals the day result's latest values and recent
\* history, and `timeframes` is the mapping main computed
C5_DayMirror ==
    (pc = "done" /\ Len(stdout) = 1 /\ IsSuccessDocument(stdout[1]))
    => LET doc == stdout[1]
       IN  /\ "detail" \in doc.fields <=> "day" \in DOMAIN doc.timeframes
           /\ "recent5" \in doc.fields <=> "day" \in DOMAIN doc.timeframes
           /\ "day" \in DOMAIN doc.timeframes =>
                 /\ doc.detail = doc.timeframes["day"].latest
                 /\ doc.recent5 = doc.timeframes["day"].recent
           /\ doc.timeframes = timeframes

\* C5 witness: a report with the mirror of "day" beside another timeframe whose
\* result differs from the day result
C5_Witness ==
    /\ pc = "done" /\ Len(stdout) = 1 /\ IsSuccessDocument(stdout[1])
    /\ {"day", "60m"} \subseteq DOMAIN stdout[1].timeframes
    /\ stdout[1].timeframes["60m"].latest # stdout[1].timeframes["day"].latest
    /\ "detail" \in stdout[1].fields

-----------------------------------------------------------------------------
(* The calculator on generated series of 1 to MaxBars bars *)

Patterns == {"zigzag", "rise", "fall", "crash", "dry", "surge", "halt", "negative"}

\* the i-th of n daily bars: closes going up and down, rising by 0.10 a bar,
\* falling by 0.10 a bar, flat with a last bar that loses 10% on three times the
\* volume, flat with a last bar on a fifth of the volume, alternating between
\* 10.00 and 9.90 with a last bar that jumps from 9.90 to 11.00, going up and
\* down and then halted for the last 9 bars (open = close = high = low), flat
\* with negative volumes
PatternBar(pat, i, n) ==
    LET day == DateV(24 * (9 + i), 0)
    IN  CASE pat = "zigzag" -> FillerBar(i)
          [] pat = "rise" ->
                Item(day, NumV(990 + 10 * i), NumV(1000 + 10 * i), NumV(1000 + 10 * i),
                     NumV(990 + 10 * i), NumV(5), Absent)
          [] pat = "fall" ->
                Item(day, NumV(2010 - 10 * i), NumV(2000 - 10 * i), NumV(2010 - 10 * i),
                     NumV(2000 - 10 * i), NumV(5), Absent)
          [] pat = "crash" ->
                IF i < n
                THEN Item(day, NumV(1000), NumV(1000), NumV(1010), NumV(990), NumV(10), Absent)
                ELSE Item(day, NumV(1000), NumV(900), NumV(1000), NumV(900), NumV(30), Absent)
          [] pat = "dry" ->
                Item(day, NumV(1000), NumV(1000), NumV(1010), NumV(990),
                     NumV(IF i < n THEN 10 ELSE 2), Absent)
          [] pat = "halt" ->
                IF i > n - 9
                THEN Item(day, NumV(1000), NumV(1000), NumV(1000), NumV(1000), NumV(5), Absent)
                ELSE FillerBar(i)
          [] pat = "negative" ->
                Item(day, NumV(1000), NumV(1000), NumV(1010), NumV(990),
                     NumV(IF i < n THEN -10 ELSE -15), Absent)
          [] pat = "surge" ->
                LET c == IF i = n THEN 1100 ELSE IF (n - i) % 2 = 1 THEN 990 ELSE 1000
                IN  Item(day, NumV(c), NumV(c), NumV(c + 10), NumV(c - 10), NumV(5), Absent)

SeriesLists == {[i \in 1..n |-> PatternBar(pat, i, n)] : pat \in Patterns, n \in 1..MaxBars}

SpecSeries == InitCalc(SeriesLists) /\ [][NextCalc]_vars

\* the indicators that need 20 or more bars
LongLookbackKeys ==
    {"ma20", "ma60", "bollinger_upper", "bollinger_middle", "bollinger_lower", "cci"}
\* the risk warnings that read the 20-bar volume average or MA(20)
LongLookbackWarnings == {"volume_contraction", "volume_spike", "below_ma20"}

\* C10: for a normalized series of 1 to 19 bars the analysis does not raise and
\* returns a complete result in which MA(20), MA(60), Bollinger and CCI have no
\* value, in `latest` and in every recent snapshot, and no risk warning that
\* reads the 20-bar volume average or MA(20) is given
C10_ShortSeries ==
    /\ (pc = "analysed" /\ Len(df) \in 1..19)
       => /\ result.latest.ma20 = JsonNone
          /\ result.latest.ma60 = JsonNone
          /\ result.latest.has \cap LongLookbackKeys = {}
          /\ Len(result.recent) >= 1
          /\ \A k \in 1..Len(result.recent) :
                /\ result.recent[k].has \cap LongLookbackKeys = {}
                /\ \A key \in {"ma20", "ma60"} : result.recent[k].val[key] = NaN
          /\ \A k \in 1..Len(result.riskWarnings) :
                result.riskWarnings[k] \notin LongLookbackWarnings
          /\ result.supportResistance.period20.support
                <= result.supportResistance.period20.resistance
    /\ raised = "none"

\* C10 witness: 19 bars analysed, with a risk warning from an indicator that
\* does have a value (RSI)
C10_Witness ==
    /\ pc = "analysed"
    /\ Len(df) = 19
    /\ Len(result.riskWarnings) >= 1
    /\ "rsi" \in result.latest.has

-----------------------------------------------------------------------------
(* Warm-up of the indicators *)

\* the position in the series of the k-th snapshot of `recent`
SnapshotPosition(k) == Len(df) - Len(result.recent) + k

MacdKeys == {"macd", "macd_signal", "macd_hist"}

\* C11: the MACD diff, signal and histogram have no value at every position
\* with fewer than 26 bars up to and including it: calculate_macd returns no
\* number there, and neither `latest` nor a snapshot of `recent` reports one
C11_MacdWarmup ==
    pc = "analysed"
    => /\ \A i \in DOMAIN macd.macd : i >= 26
       /\ Len(df) < 26 => result.latest.has \cap MacdKeys = {}
       /\ \A k \in 1..Len(result.recent) :
             SnapshotPosition(k) < 26 => result.recent[k].has \cap MacdKeys = {}

\* the indicators that read the previous close of each bar of a 14-bar window
PreviousCloseKeys == {"rsi", "atr", "mfi"}

\* C12: RSI(14), ATR(14) and MFI(14) have no value at every position with
\* fewer than 15 bars up to and including it, in `latest` and in every
\* snapshot of `recent`
C12_PreviousCloseWarmup ==
    pc = "analysed"
    => /\ Len(df) < 15 => result.latest.has \cap PreviousCloseKeys = {}
       /\ \A k \in 1..Len(result.recent) :
             SnapshotPosition(k) < 15 => result.recent[k].has \cap PreviousCloseKeys = {}

-----------------------------------------------------------------------------
(* The engine run more than once on one input *)

\* a further call of calculate_comprehensive_analysis on the same calculator
AnalyseAgain ==
    /\ pc = "analysed"
    /\ Len(calls) < MaxCalls
    /\ \E label \in {"day", "60m", "5m"} : Call(RecentPoints(label))
    /\ pc' = "analysed"
    /\ UNCHANGED <<argv, kline_json, parsed, ki, timeframes, stdout, kline_data, raised, order>>

\* a new TechnicalIndicatorCalculator(kline_data) on the input of the first one
Reconstruct ==
    /\ pc = "analysed"
    /\ Len(calls) < MaxCalls
    /\ \E out \in PrepareDataframe(kline_data) :
          /\ raised' = out.exc
          /\ df' = out.df
          /\ pc' = IF out.exc = "none" THEN "ready" ELSE "raised"
    /\ kline_data' = CallerList(kline_data)
    /\ UNCHANGED <<argv, kline_json, parsed, ki, timeframes, stdout, result>>
    /\ UNCHANGED <<calls, volume_anomalies, macd, order>>

NextRepeat == Construct \/ Analyse \/ AnalyseAgain \/ Reconstruct

\* the calculator called repeatedly on generated series (all timestamps distinct)
SpecRepeat == InitCalc(SeriesLists) /\ [][NextRepeat]_vars

-----------------------------------------------------------------------------
(* The recent history of each timeframe *)

\* the recent-history length of a timeframe
HistoryLength(key) == CASE key = "day" -> 5 [] key = "60m" -> 20 [] key = "5m" -> 48

\* the series main was given for a timeframe of the report
GivenSeries(key) == IF parsed.kind = "list" THEN parsed.items ELSE parsed.val[key].items

\* C14: for each timeframe of the report, `recent` holds exactly min(K, N)
\* snapshots, N the length of the normalized series and K = 5 for "day",
\* 20 for "60m", 48 for "5m"
C14_RecentLength ==
    (pc = "done" /\ Len(stdout) = 1 /\ IsSuccessDocument(stdout[1]))
    => \A key \in DOMAIN stdout[1].timeframes :
          \A out \in PrepareDataframe(TrimSeries(GivenSeries(key))) :
             Len(stdout[1].timeframes[key].recent) = Min2(HistoryLength(key), Len(out.df))

\* C14 witness: a report whose three timeframes hold 5, 20 and 48 snapshots of
\* series longer than that
C14_Witness ==
    /\ pc = "done" /\ Len(stdout) = 1 /\ IsSuccessDocument(stdout[1])
    /\ DOMAIN stdout[1].timeframes = {"day", "60m", "5m"}
    /\ Len(stdout[1].timeframes["day"].recent) = 5
    /\ Len(stdout[1].timeframes["60m"].recent) = 20
    /\ Len(stdout[1].timeframes["5m"].recent) = 48

-----------------------------------------------------------------------------
(* The bars of the normalized series *)

\* open, close, high and low are positive and high and low bracket open and close
PricesConsistent(bar) ==
    /\ bar.open > 0 /\ bar.close > 0 /\ bar.high > 0 /\ bar.low > 0
    /\ bar.high >= Max2(bar.open, bar.close)
    /\ bar.low <= Min2(bar.open, bar.close)

\* C15: every bar of the normalized series has positive prices, a high that is
\* at least max(open, close), a low that is at most min(open, close), and a
\* volume that is not negative
C15_BarInvariants ==
    pc = "ready" => \A i \in 1..Len(df) : PricesConsistent(df[i]) /\ df[i].volume >= 0

-----------------------------------------------------------------------------
(* The events of find_technical_signals *)

\* the bars find_technical_signals scans: the last 20, or all when fewer
ScannedWindow == (Len(df) - Min2(20, Len(df)) + 1)..Len(df)

\* the signal list holds an event of this type dated at bar i
Emitted(type, i) ==
    \E k \in 1..Len(result.signals) :
       result.signals[k] = [date |-> StrftimeDay(df[i].date), type |-> type]

SignalTypes ==
    {"RSI_overbought", "RSI_oversold", "MACD_golden_cross", "MACD_dead_cross",
     "MA_golden_cross", "MA_dead_cross"}

\* MA(5) and MA(10) have a value at bars i - 1 and i
MaDefinedAround(i) == i - 1 >= 10
\* RSI(14) has a value at bars i - 1 and i
RsiDefinedAround(i) == i >= 2 /\ RsiDefined(df, i - 1) /\ RsiDefined(df, i)

-----------------------------------------------------------------------------
(* The entries of find_volume_anomalies *)

\* the anomaly list holds an entry dated at bar i
Flagged(i) ==
    \E k \in 1..Len(volume_anomalies) :
       volume_anomalies[k].date = StrftimeDay(df[i].date)

\* the absolute change of the close at bar i is more than 3% of the previous close
MovesMoreThan3Percent(i) ==
    \/ 100 * (df[i].close - df[i - 1].close) > 3 * df[i - 1].close
    \/ 100 * (df[i - 1].close - df[i].close) > 3 * df[i - 1].close

\* C17: find_volume_anomalies flags bar i exactly when the 20-bar volume
\* average has a value at i (20 bars end there), the volume of the bar is more
\* than twice that average, and the close moved by more than 3% of the previous
\* close; the first bar is never flagged, and every entry belongs to a bar
\* (stated for series of positive volumes)
C17_AnomaliesExact ==
    pc = "analysed"
    => /\ \A i \in 1..Len(df) :
             Flagged(i) <=>
                /\ i >= 20
                /\ 20 * df[i].volume > 2 * SumF(Volumes(df), i - 19, i)
                /\ MovesMoreThan3Percent(i)
       /\ ~Flagged(1)
       /\ \A k \in 1..Len(volume_anomalies) :
             \E i \in 2..Len(df) :
                volume_anomalies[k] = [date |-> StrftimeDay(df[i].date), volume |-> df[i].volume]

\* C17 witness: the last of more than 20 bars is flagged, and it is the only
\* entry of the list
C17_Witness ==
    /\ pc = "analysed"
    /\ Len(df) > 20
    /\ Flagged(Len(df))
    /\ Len(volume_anomalies) = 1

-----------------------------------------------------------------------------
(* The range of RSI *)

\* every close is above the one before
StrictlyIncreasing == \A i \in 2..Len(df) : df[i].close > df[i - 1].close

\* C18: wherever RSI(14) has a value it is within 0 and 100 (reported in
\* hundredths), in `latest` and in every snapshot of `recent`, and for 15 bars
\* of strictly increasing closes the RSI of the last bar is 100
C18_RsiRange ==
    pc = "analysed"
    => /\ \A k \in 1..Len(result.recent) :
             "rsi" \in result.recent[k].has =>
                /\ ~result.recent[k].val["rsi"].nan
                /\ result.recent[k].val["rsi"].x \in 0..10000
       /\ "rsi" \in result.latest.has =>
             /\ result.latest.val["rsi"].k = "list"
             /\ result.latest.val["rsi"].x \in 0..10000
       /\ (Len(df) = 15 /\ StrictlyIncreasing) =>
             /\ "rsi" \in result.latest.has
             /\ result.latest.val["rsi"] = JsonList1(10000)

\* C18 witness: 15 strictly increasing closes analysed
C18_Witness ==
    /\ pc = "analysed"
    /\ Len(df) = 15
    /\ StrictlyIncreasing
    /\ result.latest.val["rsi"] = JsonList1(10000)

-----------------------------------------------------------------------------
(* The MACD histogram *)

\* C19: at every position where calculate_macd returned numbers, the
\* histogram is the diff line minus the signal line, as exact fractions
C19_HistogramIdentity ==
    pc = "analysed"
    => /\ DOMAIN macd.histogram = DOMAIN macd.macd
       /\ DOMAIN macd.signal_line = DOMAIN macd.macd
       /\ \A i \in DOMAIN macd.macd :
             LET m == macd.macd[i]
                 sg == macd.signal_line[i]
                 h == macd.histogram[i]
             IN  h.num * (m.den * sg.den) = (m.num * sg.den - sg.num * m.den) * h.den

\* C19 witness: a second bar whose diff, signal and histogram are all non-zero
\* and differ from each other
C19_Witness ==
    /\ pc = "analysed"
    /\ 2 \in DOMAIN macd.macd
    /\ macd.histogram[2].num # 0
    /\ macd.signal_line[2].num # 0
    /\ macd.histogram[2] # macd.macd[2]
    /\ macd.histogram[1].num = 0

-----------------------------------------------------------------------------
(* The caller's input and the normalized series *)

\* C20: no step changes the raw record list the calculator was given (its
\* length, its order and every record stay as they were, also when the
\* 500-record cap applies), and once the series is built no computation
\* changes it
C20_InputNotMutated ==
    [][/\ kline_data' = kline_data
       /\ pc \in {"ready", "analysed"} => df' = df]_vars

\* C20 witness: a list longer than the cap was normalized to 500 bars and
\* analysed, and the list still has its records
C20_Witness ==
    /\ pc = "analysed"
    /\ Len(kline_data) > KlineCap
    /\ Len(df) = KlineCap
    /\ calls # <<>>

-----------------------------------------------------------------------------
(* The pipelines of the timeframes run in any order *)

\* the orders in which the three pipelines can be run one after the other
Orders ==
    {o \in {<<a, b, c>> : a \in RecognizedKeys, b \in RecognizedKeys, c \in RecognizedKeys} :
        {o[1], o[2], o[3]} = RecognizedKeys}

InitAnyOrder ==
    /\ argv \in ArgvInputs
    /\ pc = "start"
    /\ kline_json = NoText
    /\ parsed = [kind |-> "none"]
    /\ ki = 0
    /\ timeframes = <<>>
    /\ stdout = <<>>
    /\ kline_data = <<>>
    /\ df = <<>>
    /\ raised = "none"
    /\ result = NoResult
    /\ calls = <<>>
    /\ volume_anomalies = <<>>
    /\ macd = NoMacd
    /\ order \in Orders

\* main with its loop over the timeframe names taken in any order
SpecAnyOrder == InitAnyOrder /\ [][Next]_vars

\* the series of a timeframe normalizes: the constructor returns a series
Normalizes(v) ==
    /\ v.islist /\ Len(v.items) > 0
    /\ \A out \in PrepareDataframe(TrimSeries(v.items)) : out.exc = "none"

\* the results the pipeline of a timeframe gives on its own series
OwnResults(key) ==
    {CalculateComprehensiveAnalysis(out.df, HistoryLength(key)) :
        out \in PrepareDataframe(TrimSeries(parsed.val[key].items))}

\* C21: in whatever order the pipelines of the timeframes run, the report
\* holds for every supplied timeframe whose series normalizes the result of
\* that series alone: the TimeframeResult of a timeframe depends on no other
\* timeframe's series
C21_PipelinesIndependent ==
    DoneWithObject
    => \A key \in Supplied :
          Normalizes(parsed.val[key])
          => /\ Len(stdout) = 1
             /\ key \in DOMAIN stdout[1].timeframes
             /\ stdout[1].timeframes[key] \in OwnResults(key)

-----------------------------------------------------------------------------
(* Divisions by zero, the lookback of CCI, the width of the scanned window *)

KdjKeys == {"kdj_k", "kdj_d", "kdj_j"}

\* the 14-bar average loss at position p is zero
ZeroAverageLoss(p) == p >= 14 /\ LossSum(df, 14, p) = 0
\* the 9-bar range at position p is zero
ZeroRange(p) == p >= 9 /\ HighMax(df, p - 8, p) = LowMin(df, p - 8, p)

\* C22: where the formula of an indicator divides by zero the indicator has
\* no value: RSI where the average loss of the 14-bar window is zero, K, D and
\* J where the highest high of the 9-bar window equals its lowest low; stated
\* for `latest` and for every snapshot of `recent`
C22_DivisionByZeroNoValue ==
    pc = "analysed"
    => /\ ZeroAverageLoss(Len(df)) => "rsi" \notin result.latest.has
       /\ ZeroRange(Len(df)) => result.latest.has \cap KdjKeys = {}
       /\ \A k \in 1..Len(result.recent) :
             /\ ZeroAverageLoss(SnapshotPosition(k)) => "rsi" \notin result.recent[k].has
             /\ ZeroRange(SnapshotPosition(k)) => result.recent[k].has \cap KdjKeys = {}

\* the typical prices of the 20 bars ending at position p are not all equal,
\* so that their mean absolute deviation is not zero
TypicalPriceVaries(p) ==
    \E i, j \in (p - 19)..p : Tp3(df, i) # Tp3(df, j)

\* C23: CCI(20) has a value at every position where 20 bars end and the
\* mean absolute deviation of the typical price over these 20 bars is not
\* zero, in `latest` and in every snapshot of `recent`
C23_CciLookback ==
    pc = "analysed"
    => /\ (Len(df) >= 20 /\ TypicalPriceVaries(Len(df))) => "cci" \in result.latest.has
       /\ \A k \in 1..Len(result.recent) :
             (SnapshotPosition(k) >= 20 /\ TypicalPriceVaries(SnapshotPosition(k)))
             => "cci" \in result.recent[k].has

\* the last call analysed an intraday timeframe ("60m" or "5m")
IntradayCall == calls # <<>> /\ calls[Len(calls)].recent_points \in {20, 48}

\* C24: for the "60m" and "5m" timeframes find_technical_signals scans more
\* than the last 20 bars: a crossing of the MACD lines at the 21st bar from the
\* end is in the signal list
C24_WindowWiderForIntraday ==
    (pc = "analysed" /\ IntradayCall /\ Len(df) - 20 \in DOMAIN macd.macd /\ Len(df) - 20 >= 2)
    => LET i == Len(df) - 20
       IN  /\ (/\ ~RatLess(macd.signal_line[i - 1], macd.macd[i - 1])
               /\ RatLess(macd.signal_line[i], macd.macd[i]))
              => Emitted("MACD_golden_cross", i)
           /\ (/\ ~RatLess(macd.macd[i - 1], macd.signal_line[i - 1])
               /\ RatLess(macd.macd[i], macd.signal_line[i]))
              => Emitted("MACD_dead_cross", i)


-----------------------------------------------------------------------------
(* The order of the signal list *)

\* the bar of the k-th signal (the bars of a daily series have distinct days)
BarOf(k) == CHOOSE i \in 1..Len(df) : StrftimeDay(df[i].date) = result.signals[k].date

-----------------------------------------------------------------------------
(* The rules of generate_risk_warnings *)

\* the warnings of the rules that hold at the latest bar of df, in the order
\* RSI > 70, RSI < 30, volume < 0.7 * avg20, volume > 2 * avg20,
\* close < 0.95 * MA(20)
SatisfiedRules ==
    LET n == Len(df)
        avg == RollingDefined(20, n)
    IN  (IF RsiDefined(df, n) /\ 3 * GainSum(df, 14, n) > 7 * LossSum(df, 14, n)
         THEN <<"rsi_overbought">> ELSE <<>>)
        \o (IF RsiDefined(df, n) /\ 7 * GainSum(df, 14, n) < 3 * LossSum(df, 14, n)
            THEN <<"rsi_oversold">> ELSE <<>>)
        \o (IF avg /\ 200 * df[n].volume < 7 * VolumeSum(df, n)
            THEN <<"volume_contraction">> ELSE <<>>)
        \o (IF avg /\ 20 * df[n].volume > 2 * VolumeSum(df, n)
            THEN <<"volume_spike">> ELSE <<>>)
        \o (IF avg /\ 2000 * df[n].close < 95 * MaSum(df, 20, n)
            THEN <<"below_ma20">> ELSE <<>>)

\* C26: the warning list holds exactly one warning for every rule that is
\* satisfied at the latest bar and none for a rule that is not, in the order of
\* the five rules
C26_EveryRuleWarns ==
    pc = "analysed" => result.riskWarnings = SatisfiedRules

-----------------------------------------------------------------------------
(* A record whose date cannot be parsed *)

\* a record with sound prices and volume and a date that pd.to_datetime accepts
WellFormedDated(item) == Keep(item) /\ DateParses(item.d)
\* a record with sound prices and volume whose date is no date, such as "abc"
WellFormedUndated(item) == Keep(item) /\ item.d = Text

\* C27: a record that is well-formed in prices and volume but whose date cannot
\* be parsed is dropped like any other malformed record: the constructor does
\* not raise, and every well-formed bar of the list is in the normalized series
C27_UnparsableDateDropped ==
    (/\ pc # "new"
     /\ \E i \in 1..Len(kline_data) : WellFormedUndated(kline_data[i])
     /\ \E j \in 1..Len(kline_data) : WellFormedDated(kline_data[j]))
    => /\ raised = "none"
       /\ \A j \in 1..Len(kline_data) :
             WellFormedDated(kline_data[j])
             => \E p \in 1..Len(df) : df[p].date = ToDatetime(kline_data[j].d)

-----------------------------------------------------------------------------
(* Support and resistance *)

\* the last min(20, N) bars of df
Last20 == Max2(1, Len(df) - 19)..Len(df)

\* C28: for a series of N >= 1 bars the reported support is the minimum low
\* and the reported resistance the maximum high of the last min(20, N) bars, so
\* support <= low <= close <= high <= resistance at the latest bar and
\* support <= resistance
C28_SupportResistance ==
    pc = "analysed"
    => LET sr == result.supportResistance.period20
           n == Len(df)
       IN  /\ n >= 1
           /\ \A i \in Last20 : sr.support <= df[i].low /\ df[i].high <= sr.resistance
           /\ \E i \in Last20 : sr.support = df[i].low
           /\ \E i \in Last20 : sr.resistance = df[i].high
           /\ sr.support <= df[n].low
           /\ df[n].low <= df[n].close
           /\ df[n].close <= df[n].high
           /\ df[n].high <= sr.resistance
           /\ sr.support <= sr.resistance

\* C28 witness: a series of more than 20 bars whose lowest low lies before the
\* last 20 bars
C28_Witness ==
    /\ pc = "analysed"
    /\ Len(df) > 20
    /\ \E i \in 1..(Len(df) - 20) :
          df[i].low < result.supportResistance.period20.support

-----------------------------------------------------------------------------
(* Intraday series *)

\* the hours of the four bars of one trading day
IntradayHours == <<10, 11, 14, 15>>

IntradayPatterns == {"flutter", "climb"}

\* the i-th bar of an intraday series, four bars a day: closes that alternate
\* between 10.10 and 10.00, or closes that rise by 0.10 a bar
IntradayBar(pat, i) ==
    LET ts == 24 * (10 + ((i - 1) \div 4)) + IntradayHours[((i - 1) % 4) + 1]
        c == IF pat = "flutter" THEN 1000 + 10 * (i % 2) ELSE 1000 + 10 * i
    IN  Item(DateV(ts, 0), NumV(c), NumV(c), NumV(c + 10), NumV(c - 10), NumV(5), Absent)

IntradayLists ==
    {[i \in 1..n |-> IntradayBar(pat, i)] : pat \in IntradayPatterns, n \in 1..MaxBars}

\* the calculator on intraday series
SpecIntraday == InitCalc(IntradayLists) /\ [][NextCalc]_vars

\* C29: no two signals of one signal list carry the same (date, type) pair,
\* also for the intraday timeframes: the signals of two different bars differ
\* in their reported date
C29_SignalsDistinct ==
    pc = "analysed"
    => \A j \in 1..Len(result.signals) : \A k \in 1..Len(result.signals) :
          j < k => result.signals[j] # result.signals[k]

-----------------------------------------------------------------------------
(* The recent snapshots and the latest values *)

\* C30: `recent` is the contiguous chronological suffix of the normalized
\* series that ends at the latest bar, and its last snapshot agrees with
\* `latest`: the same close and volume, an indicator present in the snapshot
\* exactly when `latest` has it, and with the same rounded number
C30_RecentAgreesWithLatest ==
    pc = "analysed"
    => LET L == Len(result.recent)
           last == result.recent[L]
       IN  /\ 1 <= L /\ L <= Len(df)
           /\ \A k \in 1..L :
                 /\ result.recent[k].date = StrftimeRecent(df[SnapshotPosition(k)].date)
                 /\ result.recent[k].close = df[SnapshotPosition(k)].close
           /\ \A k \in 1..(L - 1) :
                 df[SnapshotPosition(k)].date < df[SnapshotPosition(k + 1)].date
           /\ last.close = result.latest.close
           /\ last.volume = result.latest.volume
           /\ last.has = result.latest.has
           /\ \A key \in ValueKeys :
                 IF key \in last.has
                 THEN /\ ~last.val[key].nan
                      /\ result.latest.val[key] = JsonList1(last.val[key].x)
                 ELSE result.latest.val[key] = JsonNone

\* C30 witness: a series longer than its recent list, with an indicator that
\* has a value at the latest bar and one that has none
C30_Witness ==
    /\ pc = "analysed"
    /\ Len(result.recent) >= 5
    /\ Len(df) > Len(result.recent)
    /\ "rsi" \in result.latest.has
    /\ "ma60" \notin result.latest.has
    /\ result.recent[1].close # result.recent[Len(result.recent)].close

=========================================================================
